---- MODULE Spec2Model ----
(***************************************************************************)
(* Model of discovery_demo_sim.py: nine agent_worker tasks publish events  *)
(* on a Bus (asyncio.Queue); Orchestrator.pump consumes them, writes       *)
(* events.jsonl and updates the metrics dict; Orchestrator.dashboards      *)
(* appends snapshots to dashboard_snapshots.jsonl.  All tasks run on one   *)
(* asyncio event loop, so every action below is the code a task executes   *)
(* between two suspension points.                                          *)
(*                                                                         *)
(* Time.  Every deadline test in the source reads                          *)
(* (datetime.utcnow()-start).seconds, a whole number of seconds; the       *)
(* variable elapsed is that number.  Timers (asyncio.sleep, the wait_for   *)
(* timeout) only give lower bounds on a delay, so the clock may advance    *)
(* between any two task steps.                                             *)
(*                                                                         *)
(* Floats.  Python floats are IEEE-754 doubles.  A double x with           *)
(* 0 <= x < 16 is represented exactly as the integer x * 2^59, written as  *)
(* three base-2^20 limbs <<a, b, c>>; FAdd and FDivInt round the exact     *)
(* result to 53 significant bits, ties to even, as the hardware does.      *)
(***************************************************************************)
EXTENDS Integers, Naturals, Sequences, FiniteSets, TLC

\* --------------------------------------------------------------------------
\* Program constants
\* --------------------------------------------------------------------------
RUNTIME_SECONDS == 30
SNAPSHOT_EVERY == 1

\* Orchestrator.__init__: the agent names, in dict insertion order.
AgentNames ==
  << "process_mapper", "suite_exporter", "master_data", "policy_compiler",
     "fsd_drafter", "estimator", "configuration_assistant",
     "engagement_planner", "orchestrator_helper" >>

Agents == { AgentNames[i] : i \in 1..Len(AgentNames) }

\* --------------------------------------------------------------------------
\* Bounds of the model
\* --------------------------------------------------------------------------
\* the clock is observed every TickStep seconds
TickStep == 15
\* the clock stops advancing once it has reached MaxElapsed
MaxElapsed == 31
\* agent loop iterations that complete before the deadline, over all agents,
\* in a whole run (Spec) and in a run observed before its deadline (RunSpec)
LifeWakes == 0
MaxWakes == 2
\* the latest second at which a test reads the derived temporal fields
MaxProbe == 40
\* length of the short warm-up runs of process.discovered and
\* requirement.identified (the 5th application is the first after which the
\* accumulated coverage is not the double 0.05 + 0.01 * n)
DriftRun == 4
\* events published, in a whole run and in a run observed before its deadline
LifeEvents == 1
MaxEvents == 2
\* snapshots written
MaxSnaps == 2
\* events a test feeds to the consume loop after its warm-up
MaxFeed == 2
\* events a test leaves waiting in the Bus
MaxQueue == 1
\* length of the warm-up runs of process.discovered, requirement.identified
\* (the 90th application reaches the 0.95 ceiling)
CoverageRun == 89
\* length of the warm-up run of fsd.section_drafted (the 47th application
\* reaches the 0.98 ceiling)
FsdRun == 46

\* --------------------------------------------------------------------------
\* IEEE-754 doubles in [0, 16) as integers scaled by 2^59, in three limbs:
\* <<a, b, c>> stands for (a * 2^40 + b * 2^20 + c) / 2^59
\* --------------------------------------------------------------------------
Limb == 2 ^ 20

\* the float literals of the source, as doubles
F_0_0 == << 0, 0, 0 >>
F_0_01 == << 5242, 922746, 922747 >>
F_0_02 == << 10485, 796917, 796918 >>
F_0_05 == << 26214, 419430, 419432 >>
F_0_15 == << 78643, 209715, 209712 >>
F_0_2 == << 104857, 629145, 629152 >>
F_0_3 == << 157286, 419430, 419424 >>
F_0_35 == << 183500, 838860, 838848 >>
F_0_4 == << 209715, 209715, 209728 >>
F_0_5 == << 262144, 0, 0 >>
F_0_6 == << 314572, 838860, 838848 >>
F_0_7 == << 367001, 629145, 629120 >>
F_0_75 == << 393216, 0, 0 >>
F_0_9 == << 471859, 209715, 209728 >>
F_0_95 == << 498073, 629145, 629120 >>
F_0_98 == << 513802, 251658, 251648 >>
F_0_99 == << 519045, 125829, 125824 >>

\* a <= b on doubles
FLeq(a, b) ==
  \/ a[1] < b[1]
  \/ a[1] = b[1] /\ a[2] < b[2]
  \/ a[1] = b[1] /\ a[2] = b[2] /\ a[3] <= b[3]

\* Python's min(a, b) and max(a, b): b is returned only when it is strictly
\* smaller (larger) than a
FMin(a, b) == IF FLeq(a, b) THEN a ELSE b
FMax(a, b) == IF FLeq(b, a) THEN a ELSE b

\* carry propagation
Norm(a, b, c) ==
  LET b2 == b + (c \div Limb)
  IN  << a + (b2 \div Limb), b2 % Limb, c % Limb >>

\* number of low bits a double of this magnitude cannot hold: the value has
\* 40 + (bit length of the top limb) bits, of which a double keeps 53
RECURSIVE DropBits(_)
DropBits(a) == IF a < 2 ^ 13 THEN 0 ELSE 1 + DropBits(a \div 2)

\* round an exact value to the nearest double, ties to even; sticky says
\* that the exact value lies strictly above v
FRound(v, sticky) ==
  LET p == 2 ^ DropBits(v[1])
      r == v[3] % p
      down == v[3] - r
      up == (2 * r > p) \/ (2 * r = p /\ (sticky \/ (down \div p) % 2 = 1))
  IN  Norm(v[1], v[2], IF up THEN down + p ELSE down)

\* exact sum of two scaled values
ExactAdd(x, y) == Norm(x[1] + y[1], x[2] + y[2], x[3] + y[3])

\* x + y on doubles
FAdd(x, y) == FRound(ExactAdd(x, y), FALSE)

RECURSIVE ExactTimes(_, _)
ExactTimes(n, x) == IF n = 0 THEN F_0_0 ELSE ExactAdd(ExactTimes(n - 1, x), x)

\* n * x for an int n and a double x
FMulInt(n, x) == FRound(ExactTimes(n, x), FALSE)

\* x / n for a double x and an int n: long division, then rounding
FDivInt(x, n) ==
  LET r1 == x[1] % n
      r2 == (r1 * Limb + x[2]) % n
      r3 == (r2 * Limb + x[3]) % n
  IN  FRound(<< x[1] \div n, (r1 * Limb + x[2]) \div n, (r2 * Limb + x[3]) \div n >>,
             r3 > 0)

\* --------------------------------------------------------------------------
\* State
\* --------------------------------------------------------------------------
VARIABLES
  elapsed,   \* (datetime.utcnow() - start).seconds
  q,         \* Bus.q, the asyncio.Queue of events
  evlog,     \* the lines of events.jsonl
  dlog,      \* the lines of dashboard_snapshots.jsonl
  metrics,   \* Orchestrator.metrics
  agents,    \* Orchestrator.agents: name -> AgentState
  last,      \* the local variable last of Orchestrator.dashboards
  pumpPc,    \* where the task running Orchestrator.pump is
  dashPc,    \* where the task running Orchestrator.dashboards is
  agentPc,   \* where each agent_worker task is
  mainPc     \* where main is

vars == << elapsed, q, evlog, dlog, metrics, agents, last, pumpPc, dashPc, agentPc, mainPc >>

\* Orchestrator.__init__: self.metrics
InitMetrics ==
  [ processes |-> 0, requirements |-> 0, risks |-> 0,
    estimate_total |-> 0, estimate_confidence |-> F_0_2,
    data_quality_score |-> F_0_2, process_coverage |-> F_0_05,
    requirements_complete |-> F_0_05, fsd_completeness |-> F_0_05,
    agent_idle_percentage |-> F_0_0 ]

\* the dataclass AgentState with its defaults
AgentState(a) ==
  [ name |-> a, completeness |-> F_0_0, events_published |-> 0,
    last_activity |-> "", running |-> TRUE ]

\* Bus.publish: the event it builds
Event(etype, data, now) == [ event_type |-> etype, data |-> data, ts |-> now ]

\* dict.get(key, default)
Get(d, key, default) == IF key \in DOMAIN d THEN d[key] ELSE default

\* --------------------------------------------------------------------------
\* Faulty variants of the metrics update, against which the properties are
\* tried: the ceilings dropped, a wrong increment, the quality score
\* combined by something other than max, an unhandled type counted as a risk
\* --------------------------------------------------------------------------
ReduceVariant(m, evt, clamp, step, combine, elseRisk) ==
  LET et == evt.event_type
      d == evt.data
      Cap(c, v) == IF clamp THEN FMin(c, v) ELSE v
      score == Get(d, "score", F_0_2)
  IN  IF et = "process.discovered" THEN
        [ m EXCEPT !.processes = @ + 1,
                   !.process_coverage = Cap(F_0_95, FAdd(@, step)) ]
      ELSE IF et = "requirement.identified" THEN
        [ m EXCEPT !.requirements = @ + 1,
                   !.requirements_complete = Cap(F_0_95, FAdd(@, F_0_01)) ]
      ELSE IF et = "risk.identified" THEN
        [ m EXCEPT !.risks = @ + 1 ]
      ELSE IF et = "estimate.updated" THEN
        [ m EXCEPT !.estimate_total = Get(d, "total_hours", @),
                   !.estimate_confidence = Get(d, "confidence", @) ]
      ELSE IF et = "data.quality.score" THEN
        [ m EXCEPT !.data_quality_score =
            IF combine = "max" THEN FMax(@, score)
            ELSE IF combine = "min" THEN FMin(@, score)
            ELSE score ]
      ELSE IF et = "fsd.section_drafted" THEN
        [ m EXCEPT !.fsd_completeness = Cap(F_0_98, FAdd(@, F_0_02)) ]
      ELSE IF elseRisk THEN [ m EXCEPT !.risks = @ + 1 ]
      ELSE m

\* the ceilings are not applied
Reduce_NoClamp(m, evt) == ReduceVariant(m, evt, FALSE, F_0_01, "max", FALSE)
\* process_coverage grows by 0.02 per process
Reduce_WrongStep(m, evt) == ReduceVariant(m, evt, TRUE, F_0_02, "max", FALSE)
\* the latest score overwrites data_quality_score
Reduce_Overwrite(m, evt) == ReduceVariant(m, evt, TRUE, F_0_01, "last", FALSE)
\* min in place of max
Reduce_MinScore(m, evt) == ReduceVariant(m, evt, TRUE, F_0_01, "min", FALSE)
\* the chain ends in else instead of elif: an unhandled type counts as a risk
Reduce_ElseRisk(m, evt) == ReduceVariant(m, evt, TRUE, F_0_01, "max", TRUE)

\* a missing estimate field defaults to zero instead of the prior value
Reduce_DefaultZero(m, evt) ==
  IF evt.event_type = "estimate.updated" THEN
    [ m EXCEPT !.estimate_total = Get(evt.data, "total_hours", 0),
               !.estimate_confidence = Get(evt.data, "confidence", F_0_0) ]
  ELSE ReduceVariant(m, evt, TRUE, F_0_01, "max", FALSE)

\* --------------------------------------------------------------------------
\* Orchestrator.pump: the metrics update for one dequeued event
\* --------------------------------------------------------------------------
Reduce(m, evt) ==
  LET et == evt.event_type
      d == evt.data
  IN  IF et = "process.discovered" THEN
        [ m EXCEPT !.processes = @ + 1,
                   !.process_coverage = FMin(F_0_95, FAdd(@, F_0_01)) ]
      ELSE IF et = "requirement.identified" THEN
        [ m EXCEPT !.requirements = @ + 1,
                   !.requirements_complete = FMin(F_0_95, FAdd(@, F_0_01)) ]
      ELSE IF et = "risk.identified" THEN
        [ m EXCEPT !.risks = @ + 1 ]
      ELSE IF et = "estimate.updated" THEN
        [ m EXCEPT !.estimate_total = Get(d, "total_hours", @),
                   !.estimate_confidence = Get(d, "confidence", @) ]
      ELSE IF et = "data.quality.score" THEN
        [ m EXCEPT !.data_quality_score = FMax(@, Get(d, "score", F_0_2)) ]
      ELSE IF et = "fsd.section_drafted" THEN
        [ m EXCEPT !.fsd_completeness = FMin(F_0_98, FAdd(@, F_0_02)) ]
      ELSE m

\* --------------------------------------------------------------------------
\* agent_worker: the completeness curve and the event an agent may publish
\* --------------------------------------------------------------------------
\* 1/(1+pow(2.71828, -6*(t-0.6))) with t = e / RUNTIME_SECONDS, for e = 0, 1, ...
LogisticTable ==
  << << 13944, 542572, 703952 >>, << 16932, 169942, 25000 >>, << 20534, 168759, 1036140 >>,
     << 24864, 905962, 421332 >>, << 30054, 451825, 228752 >>, << 36248, 527577, 179984 >>,
     << 43606, 536075, 205520 >>, << 52298, 56740, 711872 >>, << 62496, 771370, 302584 >>,
     << 74370, 931542, 50752 >>, << 88070, 863773, 224560 >>, << 103712, 725386, 877360 >>,
     << 121359, 790199, 765808 >>, << 141002, 869547, 553376 >>, << 162542, 754543, 933568 >>,
     << 185778, 204400, 887744 >>, << 210403, 291449, 43872 >>, << 236016, 682282, 264096 >>,
     << 262144, 0, 0 >>, << 288271, 366293, 784448 >>, << 313884, 757126, 1004736 >>,
     << 338509, 844175, 160832 >>, << 361745, 294032, 115008 >>, << 383285, 179028, 495296 >>,
     << 402928, 258376, 282816 >>, << 420575, 323189, 171264 >>, << 436217, 184802, 824064 >>,
     << 449917, 117033, 997888 >>, << 461791, 277205, 746048 >>, << 471989, 991835, 336704 >>,
     << 480681, 512500, 843072 >>, << 488039, 520998, 868608 >>, << 494233, 596750, 819840 >>,
     << 499423, 142613, 627200 >>, << 503753, 879816, 12352 >>, << 507355, 878633, 1023552 >>,
     << 510343, 506003, 344704 >>, << 512815, 926460, 390464 >>, << 514858, 22057, 201792 >>,
     << 516542, 137270, 969216 >>, << 517929, 197643, 220352 >>, << 519070, 391872, 924672 >>,
     << 520008, 469961, 874240 >>, << 520779, 7184, 824512 >>, << 521411, 617943, 395968 >>,
     << 521930, 680958, 763200 >> >>

\* state.completeness as computed at elapsed second e
Completeness(e) == FMax(F_0_0, FMin(F_0_99, LogisticTable[e + 1]))

\* round(random.uniform(0.6, 0.95), 2): the two ends of the range
ConfidenceDraws == { F_0_6, F_0_95 }

\* an empty payload
NoData == [ k \in {} |-> 0 ]

\* The events agent a may publish in an iteration in which its counter is n:
\* the branch of the if/elif chain its name selects, when the draw r is
\* below the branch's threshold.
Emits(a, n, now) ==
  IF a = "process_mapper" THEN
    { Event("process.discovered", [ process_id |-> n, confidence |-> c ], now) :
        c \in ConfidenceDraws }
  ELSE IF a = "fsd_drafter" THEN
    { Event("fsd.section_drafted", [ section |-> "requirements" ], now) }
  ELSE IF a = "estimator" THEN
    { Event("estimate.updated",
            [ total_hours |-> 1200 + n * 2,
              confidence |-> FMin(F_0_9, FAdd(F_0_4, FMulInt(n, F_0_01))) ], now) }
  ELSE IF a = "master_data" THEN
    { Event("data.quality.score",
            [ score |-> FMin(F_0_95, FAdd(F_0_3, FMulInt(n, F_0_02))) ], now) }
  ELSE IF a = "policy_compiler" THEN
    { Event("requirement.identified", [ id |-> n ], now) }
  ELSE IF a = "engagement_planner" THEN
    { Event("plan.updated",
            [ duration_weeks |-> 16 - (IF n \div 10 < 8 THEN n \div 10 ELSE 8) ], now) }
  ELSE
    { Event("risk.identified", [ id |-> n, impact |-> F_0_3, probability |-> F_0_3 ], now) }

\* --------------------------------------------------------------------------
\* Orchestrator: derived temporal fields
\* --------------------------------------------------------------------------
Min(a, b) == IF a <= b THEN a ELSE b
Max(a, b) == IF a >= b THEN a ELSE b

\* faulty variant: the cap at day 5 is missing
day_NoCap(e) == e \div 6 + 1

\* Orchestrator.day at elapsed second e
day(e) == Min(e \div 6 + 1, 5)

\* faulty variant: the floor at zero is missing
hours_to_cutoff_NoFloor(e) == (((4 * 6) + 3) - e) * 4

\* Orchestrator.hours_to_cutoff at elapsed second e; rem / 0.25 is 4 * rem,
\* a whole number that round(., 2) leaves alone
hours_to_cutoff(e) ==
  LET total == (4 * 6) + 3
      rem == Max(0, total - e)
  IN  rem * 4

\* sum(a.completeness for a in self.agents.values()), added left to right in
\* dict order starting from 0
RECURSIVE SumCompleteness(_, _)
SumCompleteness(ag, i) ==
  IF i = 0 THEN F_0_0
  ELSE FAdd(SumCompleteness(ag, i - 1), ag[AgentNames[i]].completeness)

\* faulty variant: the tiers are tested with > in place of >=
IdlePercentage_Strict(ag) ==
  LET avg_comp == FDivInt(SumCompleteness(ag, Len(AgentNames)), Len(AgentNames))
  IN  IF ~FLeq(avg_comp, F_0_75) THEN F_0_35
      ELSE IF ~FLeq(avg_comp, F_0_5) THEN F_0_15
      ELSE F_0_05

\* Orchestrator.dashboards: the idle percentage derived from the agents
IdlePercentage(ag) ==
  LET avg_comp == FDivInt(SumCompleteness(ag, Len(AgentNames)), Len(AgentNames))
  IN  IF FLeq(F_0_75, avg_comp) THEN F_0_35
      ELSE IF FLeq(F_0_5, avg_comp) THEN F_0_15
      ELSE F_0_05

\* Orchestrator.dashboards: the snapshot record
Snapshot(now, m) ==
  [ ts |-> now, day |-> day(now), hours_to_cutoff |-> hours_to_cutoff(now),
    metrics |-> m ]

\* --------------------------------------------------------------------------
\* Initial state: main has built the Bus and the Orchestrator and created
\* the eleven tasks; none has run yet.
\* --------------------------------------------------------------------------
Init ==
  /\ elapsed = 0
  /\ q = << >>
  /\ evlog = << >>
  /\ dlog = << >>
  /\ metrics = InitMetrics
  /\ agents = [ a \in Agents |-> AgentState(a) ]
  /\ last = 0
  /\ pumpPc = "new"
  /\ dashPc = "new"
  /\ agentPc = [ a \in Agents |-> "new" ]
  /\ mainPc = "gather"

\* events whose enqueue has completed
Published == Len(evlog) + Len(q)

\* agent loop iterations completed over all agents
RECURSIVE Wakes(_, _)
Wakes(ag, i) == IF i = 0 THEN 0 ELSE Wakes(ag, i - 1) + ag[AgentNames[i]].events_published

\* every task has run up to its first suspension point.  The event loop runs
\* ready callbacks in FIFO order and main creates all the tasks before it
\* yields, so no task is resumed before the last one has been started.
Started ==
  /\ pumpPc # "new"
  /\ dashPc # "new"
  /\ \A a \in Agents : agentPc[a] # "new"

AllDone ==
  /\ pumpPc = "done"
  /\ dashPc = "done"
  /\ \A a \in Agents : agentPc[a] = "done"

\* --------------------------------------------------------------------------
\* The clock
\* --------------------------------------------------------------------------
\* The first pass of the event loop, which runs every task up to its first
\* await, takes no observable time.
Tick ==
  /\ elapsed < MaxElapsed
  /\ pumpPc = "new" \/ Started
  /\ elapsed' = elapsed + TickStep
  /\ UNCHANGED << q, evlog, dlog, metrics, agents, last, pumpPc, dashPc, agentPc, mainPc >>

\* --------------------------------------------------------------------------
\* Orchestrator.pump
\* --------------------------------------------------------------------------
\* the task starts: events.jsonl is opened for writing (truncated) and the
\* first wait_for(self.bus.get(), 0.2) suspends the task
PumpStart ==
  /\ pumpPc = "new"
  /\ pumpPc' = "wait"
  /\ evlog' = << >>
  /\ UNCHANGED << elapsed, q, dlog, metrics, agents, last, dashPc, agentPc, mainPc >>

\* faulty variant: the Bus hands out the newest event (a LIFO queue)
PumpReceive_Lifo ==
  /\ Started
  /\ pumpPc = "wait"
  /\ q # << >>
  /\ LET evt == q[Len(q)]
     IN  /\ q' = SubSeq(q, 1, Len(q) - 1)
         /\ evlog' = Append(evlog, evt)
         /\ metrics' = Reduce(metrics, evt)
  /\ UNCHANGED << elapsed, dlog, agents, last, pumpPc, dashPc, agentPc, mainPc >>

\* faulty variant: process.discovered is counted but the coverage is not
\* updated
PumpReceive_HalfApplied ==
  /\ Started
  /\ pumpPc = "wait"
  /\ q # << >>
  /\ LET evt == Head(q)
     IN  /\ q' = Tail(q)
         /\ evlog' = Append(evlog, evt)
         /\ metrics' = IF evt.event_type = "process.discovered"
                         THEN [ metrics EXCEPT !.processes = @ + 1 ]
                         ELSE Reduce(metrics, evt)
  /\ UNCHANGED << elapsed, dlog, agents, last, pumpPc, dashPc, agentPc, mainPc >>

\* faulty variant: the event is applied but not written to the log
PumpReceive_DropsLog ==
  /\ Started
  /\ pumpPc = "wait"
  /\ q # << >>
  /\ q' = Tail(q)
  /\ metrics' = Reduce(metrics, Head(q))
  /\ UNCHANGED << elapsed, evlog, dlog, agents, last, pumpPc, dashPc, agentPc, mainPc >>

\* bus.get() returns an event: it is logged and applied to the metrics, and
\* the loop waits again
PumpReceive ==
  /\ Started
  /\ pumpPc = "wait"
  /\ q # << >>
  /\ LET evt == Head(q)
     IN  /\ q' = Tail(q)
         /\ evlog' = Append(evlog, evt)
         /\ metrics' = Reduce(metrics, evt)
  /\ UNCHANGED << elapsed, dlog, agents, last, pumpPc, dashPc, agentPc, mainPc >>

\* the 0.2 s timer of wait_for fires on an empty queue: the pending get is
\* cancelled and the task is scheduled to resume with TimeoutError.  Other
\* callbacks that are ready in the same loop iteration run before it does.
PumpTimerFires ==
  /\ Started
  /\ pumpPc = "wait"
  /\ q = << >>
  /\ pumpPc' = "timedout"
  /\ UNCHANGED << elapsed, q, evlog, dlog, metrics, agents, last, dashPc, agentPc, mainPc >>

\* faulty variant: the handler continues without testing the deadline
PumpTimeout_NeverBreaks ==
  /\ pumpPc = "timedout"
  /\ pumpPc' = "wait"
  /\ UNCHANGED << elapsed, q, evlog, dlog, metrics, agents, last, dashPc, agentPc, mainPc >>

\* except asyncio.TimeoutError: break past the deadline, else continue
PumpTimeout ==
  /\ pumpPc = "timedout"
  /\ pumpPc' = IF elapsed > RUNTIME_SECONDS THEN "done" ELSE "wait"
  /\ UNCHANGED << elapsed, q, evlog, dlog, metrics, agents, last, dashPc, agentPc, mainPc >>

\* --------------------------------------------------------------------------
\* Orchestrator.dashboards
\* --------------------------------------------------------------------------
\* the task starts: dashboard_snapshots.jsonl is opened for writing and
\* last = time.time(); nothing is due yet, so the loop body only sleeps,
\* unless the deadline has passed already
DashStart ==
  /\ dashPc = "new"
  /\ pumpPc # "new"
  /\ dlog' = << >>
  /\ last' = elapsed
  /\ dashPc' = IF elapsed <= RUNTIME_SECONDS THEN "sleep" ELSE "done"
  /\ UNCHANGED << elapsed, q, evlog, metrics, agents, pumpPc, agentPc, mainPc >>

\* The outcomes of now - last >= SNAPSHOT_EVERY when d whole seconds lie
\* between the two readings of time.time(): the fractions of a second that
\* elapsed leaves out decide it when d = SNAPSHOT_EVERY.
Due(d) ==
  IF d > SNAPSHOT_EVERY THEN { TRUE }
  ELSE IF d = SNAPSHOT_EVERY THEN { TRUE, FALSE }
  ELSE { FALSE }

\* faulty variant: the file is reopened for writing at every snapshot
DashSnapshot_Rewrite ==
  /\ Started
  /\ dashPc = "sleep"
  /\ elapsed <= RUNTIME_SECONDS
  /\ TRUE \in Due(elapsed - last)
  /\ Len(dlog) < MaxSnaps
  /\ last' = elapsed
  /\ metrics' = [ metrics EXCEPT !.agent_idle_percentage = IdlePercentage(agents) ]
  /\ dlog' = << Snapshot(elapsed, metrics') >>
  /\ UNCHANGED << elapsed, q, evlog, agents, pumpPc, dashPc, agentPc, mainPc >>

\* the task wakes from sleep(0.05) before the deadline and a snapshot is due.
\* (A wake-up that finds no snapshot due changes nothing and sleeps again.)
DashSnapshot ==
  /\ Started
  /\ dashPc = "sleep"
  /\ elapsed <= RUNTIME_SECONDS
  /\ TRUE \in Due(elapsed - last)
  /\ Len(dlog) < MaxSnaps
  /\ last' = elapsed
  /\ metrics' = [ metrics EXCEPT !.agent_idle_percentage = IdlePercentage(agents) ]
  /\ dlog' = Append(dlog, Snapshot(elapsed, metrics'))
  /\ UNCHANGED << elapsed, q, evlog, agents, pumpPc, dashPc, agentPc, mainPc >>

\* the task wakes from sleep(0.05) past the deadline: the while loop ends
DashExit ==
  /\ Started
  /\ dashPc = "sleep"
  /\ elapsed > RUNTIME_SECONDS
  /\ dashPc' = "done"
  /\ UNCHANGED << elapsed, q, evlog, dlog, metrics, agents, last, pumpPc, agentPc, mainPc >>

\* --------------------------------------------------------------------------
\* agent_worker
\* --------------------------------------------------------------------------
\* faulty variant: the loop body is entered without testing the deadline
AgentStart_NoTest(i) ==
  LET a == AgentNames[i]
  IN  /\ agentPc[a] = "new"
      /\ dashPc # "new"
      /\ \A j \in 1..(i - 1) : agentPc[AgentNames[j]] # "new"
      /\ agentPc' = [ agentPc EXCEPT ![a] = "sleep" ]
      /\ UNCHANGED << elapsed, q, evlog, dlog, metrics, agents, last, pumpPc, dashPc, mainPc >>

\* the i-th agent task starts, after the tasks created before it: the while
\* condition is tested and the task goes to sleep or ends
AgentStart(i) ==
  LET a == AgentNames[i]
  IN  /\ agentPc[a] = "new"
      /\ dashPc # "new"
      /\ \A j \in 1..(i - 1) : agentPc[AgentNames[j]] # "new"
      /\ agentPc' = [ agentPc EXCEPT ![a] =
                        IF elapsed <= RUNTIME_SECONDS THEN "sleep" ELSE "done" ]
      /\ UNCHANGED << elapsed, q, evlog, dlog, metrics, agents, last, pumpPc, dashPc, mainPc >>

\* faulty variant: the agent counts its event in the metrics itself
AgentWake_WritesMetrics(i, maxWakes, maxEvents) ==
  LET a == AgentNames[i]
  IN  /\ Started
      /\ agentPc[a] = "sleep"
      /\ IF elapsed <= RUNTIME_SECONDS
           THEN Wakes(agents, Len(AgentNames)) < maxWakes
           ELSE \A j \in 1..(i - 1) : agentPc[AgentNames[j]] = "done"
      /\ \/ q' = q /\ metrics' = metrics
         \/ /\ Published < maxEvents
            /\ \E evt \in Emits(a, agents[a].events_published, elapsed) :
                  /\ q' = Append(q, evt)
                  /\ metrics' = Reduce(metrics, evt)
      /\ agents' = [ agents EXCEPT ![a].events_published = @ + 1,
                                   ![a].completeness = Completeness(elapsed) ]
      /\ agentPc' = [ agentPc EXCEPT ![a] =
                        IF elapsed <= RUNTIME_SECONDS THEN "sleep" ELSE "done" ]
      /\ UNCHANGED << elapsed, evlog, dlog, last, pumpPc, dashPc, mainPc >>

\* the i-th agent wakes from its sleep: by the draw r it publishes its event
\* or none, counts the iteration, recomputes completeness and tests the while
\* condition again.  Interleavings explored: at most maxWakes iterations
\* complete before the deadline, and the wake-ups that follow the deadline
\* (each ends its task) are taken in the order the tasks were created; at
\* most maxEvents draws publish.
AgentWake(i, maxWakes, maxEvents) ==
  LET a == AgentNames[i]
  IN  /\ Started
      /\ agentPc[a] = "sleep"
      /\ IF elapsed <= RUNTIME_SECONDS
           THEN Wakes(agents, Len(AgentNames)) < maxWakes
           ELSE \A j \in 1..(i - 1) : agentPc[AgentNames[j]] = "done"
      /\ \/ q' = q
         \/ /\ Published < maxEvents
            /\ \E evt \in Emits(a, agents[a].events_published, elapsed) :
                  q' = Append(q, evt)
      /\ agents' = [ agents EXCEPT ![a].events_published = @ + 1,
                                   ![a].completeness = Completeness(elapsed) ]
      /\ agentPc' = [ agentPc EXCEPT ![a] =
                        IF elapsed <= RUNTIME_SECONDS THEN "sleep" ELSE "done" ]
      /\ UNCHANGED << elapsed, evlog, dlog, metrics, last, pumpPc, dashPc, mainPc >>

\* --------------------------------------------------------------------------
\* main
\* --------------------------------------------------------------------------
\* await asyncio.gather(*tasks) returns once every task has ended
MainFinish ==
  /\ mainPc = "gather"
  /\ AllDone
  /\ mainPc' = "done"
  /\ UNCHANGED << elapsed, q, evlog, dlog, metrics, agents, last, pumpPc, dashPc, agentPc >>

Next ==
  \/ Tick
  \/ PumpStart
  \/ PumpReceive
  \/ PumpTimerFires
  \/ PumpTimeout
  \/ DashStart
  \/ DashSnapshot
  \/ DashExit
  \/ \E i \in 1..Len(AgentNames) : AgentStart(i)
  \/ \E i \in 1..Len(AgentNames) : AgentWake(i, LifeWakes, LifeEvents)
  \/ MainFinish

Spec == Init /\ [][Next]_vars

\* the clock advances and the event loop keeps running whatever is ready
FairSpec == Spec /\ WF_vars(Tick) /\ WF_vars(Next)

\* --------------------------------------------------------------------------
\* The run before the deadline: every task has reached its first await in
\* second 0 and the clock stays within the run's duration.
\* --------------------------------------------------------------------------
RunInit ==
  /\ elapsed = 0
  /\ q = << >>
  /\ evlog = << >>
  /\ dlog = << >>
  /\ metrics = InitMetrics
  /\ agents = [ a \in Agents |-> AgentState(a) ]
  /\ last = 0
  /\ pumpPc = "wait"
  /\ dashPc = "sleep"
  /\ agentPc = [ a \in Agents |-> "sleep" ]
  /\ mainPc = "gather"

RunTick ==
  /\ elapsed + TickStep <= RUNTIME_SECONDS
  /\ Tick

RunNext ==
  \/ RunTick
  \/ PumpReceive
  \/ PumpTimerFires
  \/ PumpTimeout
  \/ DashSnapshot
  \/ \E i \in 1..Len(AgentNames) : AgentWake(i, MaxWakes, MaxEvents)

RunSpec == RunInit /\ [][RunNext]_vars

\* --------------------------------------------------------------------------
\* The consume loop driven by a test: the Orchestrator is built, only pump
\* runs, and the test publishes events of its choosing on the Bus.  During
\* second 0 the test published a warm-up sequence, which pump has consumed;
\* from second 1 on it publishes up to MaxFeed further events.
\* --------------------------------------------------------------------------
\* the metrics after pump has consumed s[lo], ..., s[hi] in this order (the
\* left half is computed before the right half is entered)
RECURSIVE ApplyAll(_, _, _, _)
ApplyAll(m, s, lo, hi) ==
  IF lo > hi THEN m
  ELSE IF lo = hi THEN Reduce(m, s[lo])
  ELSE LET mid == (lo + hi) \div 2
       IN  CHOOSE r \in { ApplyAll(left, s, mid + 1, hi) :
                            left \in { ApplyAll(m, s, lo, mid) } } : TRUE

Repeat(e, n) == [ i \in 1..n |-> e ]

\* the sequence of section 8 of the specification, published at second now
Scenario(now) ==
  << Event("process.discovered", NoData, now),
     Event("process.discovered", NoData, now),
     Event("requirement.identified", NoData, now),
     Event("data.quality.score", [ score |-> F_0_4 ], now),
     Event("data.quality.score", [ score |-> F_0_3 ], now),
     Event("estimate.updated", [ total_hours |-> 1500, confidence |-> F_0_7 ], now) >>

WarmUps ==
  { SubSeq(Scenario(0), 1, n) : n \in 0..4 }
    \cup { Repeat(Event("process.discovered", NoData, 0), CoverageRun),
           Repeat(Event("requirement.identified", NoData, 0), CoverageRun),
           Repeat(Event("fsd.section_drafted", NoData, 0), FsdRun) }

\* 0.1, a score below the initial data_quality_score
F_0_1 == << 52428, 838860, 838864 >>

\* what a test may publish: every handled type, an unhandled one, and the
\* payloads with and without their optional fields
TestInputs ==
  { << "process.discovered", NoData >>,
    << "requirement.identified", NoData >>,
    << "risk.identified", NoData >>,
    << "fsd.section_drafted", NoData >>,
    << "plan.updated", [ duration_weeks |-> 16 ] >>,
    << "data.quality.score", [ score |-> F_0_4 ] >>,
    << "data.quality.score", [ score |-> F_0_3 ] >>,
    << "data.quality.score", [ score |-> F_0_1 ] >>,
    << "data.quality.score", NoData >>,
    << "estimate.updated", [ total_hours |-> 1500, confidence |-> F_0_7 ] >>,
    << "estimate.updated", [ total_hours |-> 1500 ] >>,
    << "estimate.updated", [ confidence |-> F_0_7 ] >>,
    << "estimate.updated", NoData >> }

TestInit ==
  /\ elapsed = 1
  /\ q = << >>
  /\ evlog \in WarmUps
  /\ metrics = ApplyAll(InitMetrics, evlog, 1, Len(evlog))
  /\ dlog = << >>
  /\ agents = [ a \in Agents |-> AgentState(a) ]
  /\ last = 0
  /\ pumpPc = "wait"
  /\ dashPc = "done"
  /\ agentPc = [ a \in Agents |-> "done" ]
  /\ mainPc = "gather"

\* events published since the warm-up
Fed(s) == Cardinality({ i \in 1..Len(s) : s[i].ts >= 1 })

\* the test calls Bus.publish
TestPublish ==
  /\ Len(q) < MaxQueue
  /\ Fed(evlog) + Fed(q) < MaxFeed
  /\ \E in \in TestInputs : q' = Append(q, Event(in[1], in[2], elapsed))
  /\ UNCHANGED << elapsed, evlog, dlog, metrics, agents, last, pumpPc, dashPc, agentPc, mainPc >>

TestNext == TestPublish \/ PumpReceive

TestSpec == TestInit /\ [][TestNext]_vars

\* --------------------------------------------------------------------------
\* The derived temporal fields read by a test: the Orchestrator is built, no
\* task runs, and the test lets the clock advance and builds the snapshot
\* record (day, hours_to_cutoff and a copy of the metrics) at seconds of its
\* choosing, also past the deadline.
\* --------------------------------------------------------------------------
ProbeInit ==
  /\ elapsed = 0
  /\ q = << >>
  /\ evlog = << >>
  /\ dlog = << >>
  /\ metrics = InitMetrics
  /\ agents = [ a \in Agents |-> AgentState(a) ]
  /\ last = 0
  /\ pumpPc = "done"
  /\ dashPc = "done"
  /\ agentPc = [ a \in Agents |-> "done" ]
  /\ mainPc = "gather"

ProbeTick ==
  /\ elapsed < MaxProbe
  /\ elapsed' = elapsed + 1
  /\ UNCHANGED << q, evlog, dlog, metrics, agents, last, pumpPc, dashPc, agentPc, mainPc >>

ProbeSnapshot ==
  /\ Len(dlog) < MaxSnaps
  /\ dlog' = Append(dlog, Snapshot(elapsed, metrics))
  /\ UNCHANGED << elapsed, q, evlog, metrics, agents, last, pumpPc, dashPc, agentPc, mainPc >>

ProbeNext == ProbeTick \/ ProbeSnapshot

ProbeSpec == ProbeInit /\ [][ProbeNext]_vars

\* --------------------------------------------------------------------------
\* The consume loop and the Snapshotter driven by a test: the Orchestrator is
\* built, the test has set the agents' completeness to values of the
\* completeness curve and has published a warm-up sequence during second 0,
\* which pump has consumed; pump and dashboards run, and the test publishes
\* up to MaxFeed further events.
\* --------------------------------------------------------------------------
\* the first k agents at the completeness of second e1, the others at that of
\* second e2
Profile(k, e1, e2) ==
  [ a \in Agents |->
      [ AgentState(a) EXCEPT
          !.completeness =
             IF \E i \in 1..k : AgentNames[i] = a THEN Completeness(e1)
             ELSE Completeness(e2) ] ]

\* no agent has iterated yet; or all the agents but one, or all, have reached
\* second 18 (completeness 0.5) and the others second 0; or five, six or all
\* of them second 30 and the others second 18 (the mean passes 0.75 between
\* five and six)
Profiles ==
  { [ a \in Agents |-> AgentState(a) ] }
    \cup { Profile(k, 18, 0) : k \in { Len(AgentNames) - 1, Len(AgentNames) } }
    \cup { Profile(k, 30, 18) : k \in { 5, 6, Len(AgentNames) } }

SnapWarmUps ==
  { Repeat(Event("process.discovered", NoData, 0), n) : n \in { 0, DriftRun, CoverageRun } }
    \cup { Repeat(Event("requirement.identified", NoData, 0), n) : n \in { DriftRun, CoverageRun } }

\* what the test publishes: the three counted types and an unhandled one
SnapInputs ==
  { << "process.discovered", NoData >>,
    << "requirement.identified", NoData >>,
    << "risk.identified", NoData >>,
    << "plan.updated", [ duration_weeks |-> 16 ] >> }

SnapInit ==
  /\ elapsed = 1
  /\ q = << >>
  /\ evlog \in SnapWarmUps
  /\ metrics = ApplyAll(InitMetrics, evlog, 1, Len(evlog))
  /\ dlog = << >>
  /\ agents \in Profiles
  /\ last = 0
  /\ pumpPc = "wait"
  /\ dashPc = "sleep"
  /\ agentPc = [ a \in Agents |-> "done" ]
  /\ mainPc = "gather"

\* the test calls Bus.publish
SnapPublish ==
  /\ Len(q) < MaxQueue
  /\ Fed(evlog) + Fed(q) < MaxFeed
  /\ \E in \in SnapInputs : q' = Append(q, Event(in[1], in[2], elapsed))
  /\ UNCHANGED << elapsed, evlog, dlog, metrics, agents, last, pumpPc, dashPc, agentPc, mainPc >>

SnapNext == RunTick \/ SnapPublish \/ PumpReceive \/ DashSnapshot

SnapSpec == SnapInit /\ [][SnapNext]_vars

\* --------------------------------------------------------------------------
\* Properties
\* --------------------------------------------------------------------------
\* s is an initial segment of t
IsPrefix(s, t) == Len(s) <= Len(t) /\ SubSeq(t, 1, Len(s)) = s

\* C1: every event an agent publishes is eventually written to the event
\* log and applied; none is left in the Bus when the run ends.  Stated on the
\* end of the run: once main's gather has returned, the Bus is empty.
C1_NoEventLeft == mainPc = "done" => q = << >>

\* C2: the consume loop processes events in the order their enqueue
\* completed.  The event log followed by the queue is the sequence of
\* enqueued events: a step changes it only by adding one event at its end,
\* and the log itself only grows at its end, so the log is always that
\* sequence without the still-queued suffix.
C2_ArrivalOrder ==
  [][ /\ IsPrefix(evlog \o q, evlog' \o q')
      /\ Len(evlog') + Len(q') <= Len(evlog) + Len(q) + 1
      /\ IsPrefix(evlog, evlog') ]_vars

\* two events of different agents have been consumed
C2_Witness ==
  /\ Len(evlog) = 2
  /\ evlog[1].event_type # evlog[2].event_type

\* C3: with an advancing clock and fair scheduling, the consume loop, the
\* Snapshotter and the nine agents all end and main's gather returns.
C3_AllTasksTerminate == <>(AllDone /\ mainPc = "done")

\* a run that started before the deadline (every agent iterated) has ended
C3_Witness ==
  /\ mainPc = "done"
  /\ AllDone
  /\ \A a \in Agents : agents[a].events_published >= 1

\* the consume loop is about to start, past the deadline, on an empty Bus
LateStart == pumpPc = "new" /\ elapsed > RUNTIME_SECONDS /\ q = << >>

\* C4: when the consume loop starts past the deadline on an empty Bus, it
\* ends with no event written and the metrics at their initial values; and a
\* timeout taken past the deadline always ends the loop (so the first does).
C4_LateStartEndsEmpty ==
  /\ LateStart ~> (pumpPc = "done" /\ evlog = << >> /\ metrics = InitMetrics)
  /\ [][ pumpPc = "timedout" /\ elapsed > RUNTIME_SECONDS
           => pumpPc' \in { "timedout", "done" } ]_vars

\* the loop has ended in a run whose tasks all started past the deadline (no
\* agent ever iterated)
C4_Witness ==
  /\ pumpPc = "done"
  /\ evlog = << >>
  /\ metrics = InitMetrics
  /\ \A a \in Agents : agentPc[a] = "done" /\ agents[a].events_published = 0

\* C5: processes, requirements, risks, process_coverage,
\* requirements_complete, fsd_completeness and data_quality_score never
\* decrease in a step, whatever event is consumed.
C5_Monotone ==
  [][ /\ metrics'.processes >= metrics.processes
      /\ metrics'.requirements >= metrics.requirements
      /\ metrics'.risks >= metrics.risks
      /\ FLeq(metrics.process_coverage, metrics'.process_coverage)
      /\ FLeq(metrics.requirements_complete, metrics'.requirements_complete)
      /\ FLeq(metrics.fsd_completeness, metrics'.fsd_completeness)
      /\ FLeq(metrics.data_quality_score, metrics'.data_quality_score) ]_vars

\* the event consumed last carried a score strictly below the field's value
C5_Witness ==
  /\ evlog # << >>
  /\ LET evt == evlog[Len(evlog)]
     IN  /\ evt.event_type = "data.quality.score"
         /\ "score" \in DOMAIN evt.data
         /\ ~FLeq(metrics.data_quality_score, evt.data.score)

\* C6: process_coverage <= 0.95, requirements_complete <= 0.95 and
\* fsd_completeness <= 0.98 in every reachable state.
C6_Ceilings ==
  /\ FLeq(metrics.process_coverage, F_0_95)
  /\ FLeq(metrics.requirements_complete, F_0_95)
  /\ FLeq(metrics.fsd_completeness, F_0_98)

\* process.discovered has been applied to a process_coverage already at its
\* ceiling
C6_Witness ==
  /\ metrics.processes > CoverageRun + 1
  /\ metrics.process_coverage = F_0_95

\* the log holds data.quality.score events only
OnlyScores(s) == \A i \in 1..Len(s) : s[i].event_type = "data.quality.score"

\* the score values that the events of s carry
Scores(s) == { s[i].data.score : i \in { j \in 1..Len(s) : "score" \in DOMAIN s[j].data } }

\* the largest double of a non-empty set
MaxOf(S) == CHOOSE x \in S : \A y \in S : FLeq(y, x)

\* C7 as stated: after a non-empty sequence of data.quality.score events
\* applied to the initial metrics, data_quality_score is the largest score the
\* events carried.
C7_MaxScoreSeen ==
  (evlog # << >> /\ OnlyScores(evlog) /\ Scores(evlog) # {})
    => metrics.data_quality_score = MaxOf(Scores(evlog))

\* C7 amended: after a non-empty sequence of data.quality.score events applied
\* to the initial metrics, data_quality_score is the largest of the initial
\* value 0.2 and the scores the events carried.
C7_MaxScoreOrInitial ==
  (evlog # << >> /\ OnlyScores(evlog))
    => metrics.data_quality_score = MaxOf(Scores(evlog) \cup { F_0_2 })

\* a score of 0.4 and then a lower one have been applied
C7_Witness ==
  /\ Len(evlog) = 2
  /\ OnlyScores(evlog)
  /\ evlog[1].data = [ score |-> F_0_4 ]
  /\ evlog[2].data = [ score |-> F_0_1 ]
  /\ metrics.data_quality_score = F_0_4

\* C8: the snapshot log only grows by appending: the snapshots written so
\* far are an unchanged initial segment of the log after any step.
C8_SnapshotsAppendOnly == [][ IsPrefix(dlog, dlog') ]_vars

\* two snapshots are written and the metrics have changed since the first
C8_Witness ==
  /\ Len(dlog) = 2
  /\ dlog[1].metrics # metrics
  /\ dlog[1].metrics.processes < metrics.processes

\* the effect table of the Metrics Reducer, one row per event type
Effect(m, evt) ==
  LET d == evt.data
  IN  CASE evt.event_type = "process.discovered" ->
             [ m EXCEPT !.processes = m.processes + 1,
                        !.process_coverage = FMin(F_0_95, FAdd(m.process_coverage, F_0_01)) ]
        [] evt.event_type = "requirement.identified" ->
             [ m EXCEPT !.requirements = m.requirements + 1,
                        !.requirements_complete =
                            FMin(F_0_95, FAdd(m.requirements_complete, F_0_01)) ]
        [] evt.event_type = "risk.identified" ->
             [ m EXCEPT !.risks = m.risks + 1 ]
        [] evt.event_type = "estimate.updated" ->
             [ m EXCEPT !.estimate_total =
                            IF "total_hours" \in DOMAIN d THEN d.total_hours ELSE m.estimate_total,
                        !.estimate_confidence =
                            IF "confidence" \in DOMAIN d THEN d.confidence
                            ELSE m.estimate_confidence ]
        [] evt.event_type = "data.quality.score" ->
             IF "score" \in DOMAIN d
               THEN [ m EXCEPT !.data_quality_score = FMax(m.data_quality_score, d.score) ]
               ELSE m
        [] evt.event_type = "fsd.section_drafted" ->
             [ m EXCEPT !.fsd_completeness = FMin(F_0_98, FAdd(m.fsd_completeness, F_0_02)) ]
        [] OTHER -> m

\* the left fold of the effect table over s[lo], ..., s[hi]
RECURSIVE EffectAll(_, _, _, _)
EffectAll(m, s, lo, hi) ==
  IF lo > hi THEN m
  ELSE IF lo = hi THEN Effect(m, s[lo])
  ELSE LET mid == (lo + hi) \div 2
       IN  CHOOSE r \in { EffectAll(left, s, mid + 1, hi) :
                            left \in { EffectAll(m, s, lo, mid) } } : TRUE

\* the events consumed are those of the scenario, in its order
ScenarioConsumed ==
  /\ Len(evlog) = Len(Scenario(0))
  /\ \A i \in 1..Len(evlog) :
        /\ evlog[i].event_type = Scenario(0)[i].event_type
        /\ evlog[i].data = Scenario(0)[i].data

\* the doubles written 0.06 and 0.07, and the double that 0.05 + 0.01 is:
\* 0.060000000000000005, the next one above 0.06
F_0_06 == << 31457, 293601, 293600 >>
F_0_07 == << 36700, 167772, 167776 >>
F_0_06_next == << 31457, 293601, 293604 >>

\* the metrics are the left fold of the effect table over the events consumed
TableFold == metrics = EffectAll(InitMetrics, evlog, 1, Len(evlog))

\* C9 as stated: the metrics are the left fold of the effect table over the
\* events consumed, and the scenario yields processes=2,
\* process_coverage=0.07, requirements=1, requirements_complete=0.06,
\* data_quality_score=0.4, estimate_total=1500, estimate_confidence=0.7.
C9_ScenarioResult ==
  /\ TableFold
  /\ ScenarioConsumed =>
       /\ metrics.processes = 2
       /\ metrics.process_coverage = F_0_07
       /\ metrics.requirements = 1
       /\ metrics.requirements_complete = F_0_06
       /\ metrics.data_quality_score = F_0_4
       /\ metrics.estimate_total = 1500
       /\ metrics.estimate_confidence = F_0_7

\* C9 amended: the same, except that the scenario yields
\* requirements_complete = 0.060000000000000005, the double nearest to
\* 0.05 + 0.01, which is not the double 0.06.
C9_ScenarioResultAsDoubles ==
  /\ TableFold
  /\ ScenarioConsumed =>
       /\ metrics.processes = 2
       /\ metrics.process_coverage = F_0_07
       /\ metrics.requirements = 1
       /\ metrics.requirements_complete = F_0_06_next
       /\ metrics.requirements_complete # F_0_06
       /\ metrics.data_quality_score = F_0_4
       /\ metrics.estimate_total = 1500
       /\ metrics.estimate_confidence = F_0_7

\* the scenario has been consumed
C9_Witness == ScenarioConsumed /\ q = << >> /\ metrics.estimate_total = 1500

\* the six event types the metrics update handles
HandledTypes ==
  { "process.discovered", "requirement.identified", "risk.identified",
    "estimate.updated", "data.quality.score", "fsd.section_drafted" }

\* C10: a step that dequeues an event of an unhandled type appends it to the
\* event log, leaves every metrics field unchanged and leaves the loop
\* waiting for the next event.
C10_UnknownTypeLoggedOnly ==
  [][ (q # << >> /\ Head(q).event_type \notin HandledTypes /\ Len(q') < Len(q))
        => /\ evlog' = Append(evlog, Head(q))
           /\ q' = Tail(q)
           /\ metrics' = metrics
           /\ pumpPc' = "wait" ]_vars

\* plan.updated has been consumed; the metrics are the initial ones and the
\* loop is waiting
C10_Witness ==
  /\ evlog # << >>
  /\ evlog[Len(evlog)].event_type = "plan.updated"
  /\ metrics = InitMetrics
  /\ pumpPc = "wait"

\* C11: a step that consumes estimate.updated without total_hours leaves
\* estimate_total unchanged, one without confidence leaves
\* estimate_confidence unchanged, and one that consumes data.quality.score
\* without score leaves data_quality_score unchanged; the event is logged and
\* the loop keeps waiting.
C11_MissingFieldKeepsValue ==
  [][ (q # << >> /\ Len(q') < Len(q)) =>
        LET et == Head(q).event_type
            d == Head(q).data
        IN  /\ evlog' = Append(evlog, Head(q))
            /\ pumpPc' = "wait"
            /\ (et = "estimate.updated" /\ "total_hours" \notin DOMAIN d)
                 => metrics'.estimate_total = metrics.estimate_total
            /\ (et = "estimate.updated" /\ "confidence" \notin DOMAIN d)
                 => metrics'.estimate_confidence = metrics.estimate_confidence
            /\ (et = "data.quality.score" /\ "score" \notin DOMAIN d)
                 => metrics'.data_quality_score = metrics.data_quality_score ]_vars

\* an estimate.updated without total_hours has been consumed after one that
\* set estimate_total, and the value is kept
C11_Witness ==
  /\ Len(evlog) >= 2
  /\ evlog[Len(evlog)].event_type = "estimate.updated"
  /\ "total_hours" \notin DOMAIN evlog[Len(evlog)].data
  /\ evlog[Len(evlog) - 1].event_type = "estimate.updated"
  /\ "total_hours" \in DOMAIN evlog[Len(evlog) - 1].data
  /\ metrics.estimate_total = 1500

\* C12: day is 1 at elapsed 0, is 5 from elapsed 24 on and always lies in
\* 1..5, so every snapshot record has day in 1..5.
C12_DayRange ==
  \A i \in 1..Len(dlog) :
     /\ dlog[i].day \in 1..5
     /\ dlog[i].ts = 0 => dlog[i].day = 1
     /\ dlog[i].ts >= 24 => dlog[i].day = 5

\* records built at second 0 and past the deadline
C12_Witness ==
  /\ Len(dlog) = 2
  /\ dlog[1].ts = 0 /\ dlog[1].day = 1
  /\ dlog[2].ts > RUNTIME_SECONDS /\ dlog[2].day = 5

\* C13: hours_to_cutoff is never negative and is exactly 0 from the cutoff
\* (elapsed 27) on, so every snapshot record has hours_to_cutoff >= 0.
C13_HoursNotNegative ==
  \A i \in 1..Len(dlog) :
     /\ dlog[i].hours_to_cutoff >= 0
     /\ dlog[i].ts >= 27 => dlog[i].hours_to_cutoff = 0

\* records built before the cutoff and past it
C13_Witness ==
  /\ Len(dlog) = 2
  /\ dlog[1].ts < 27 /\ dlog[1].hours_to_cutoff > 0
  /\ dlog[2].ts > 27 /\ dlog[2].hours_to_cutoff = 0

\* C14: the metrics have a single writer: a step changes a metrics field
\* only if it is a step of the consume loop (it writes the event log), and a
\* step of the Snapshotter (it writes the snapshot log) leaves the metrics
\* unchanged.
C14_SingleWriter ==
  [][ /\ metrics' # metrics => evlog' # evlog
      /\ dlog' # dlog => metrics' = metrics ]_vars

\* C16: a step of an agent leaves the metrics, both logs and every other
\* agent's state unchanged; it enqueues at most one event and changes only
\* its own events_published and completeness.
C16_AgentFrame ==
  [][ (agents' # agents \/ agentPc' # agentPc) =>
        /\ metrics' = metrics
        /\ evlog' = evlog
        /\ dlog' = dlog
        /\ last' = last
        /\ pumpPc' = pumpPc /\ dashPc' = dashPc
        /\ q' = q \/ (Len(q') = Len(q) + 1 /\ IsPrefix(q, q'))
        /\ \E a \in Agents :
              /\ \A b \in Agents \ { a } : agents'[b] = agents[b] /\ agentPc'[b] = agentPc[b]
              /\ agents'[a].name = agents[a].name
              /\ agents'[a].last_activity = agents[a].last_activity
              /\ agents'[a].running = agents[a].running ]_vars

\* an agent has iterated and published while the metrics and the logs are
\* as at the start
C16_Witness ==
  /\ q # << >>
  /\ \E a \in Agents : agents[a].events_published >= 1 /\ agents[a].completeness # F_0_0
  /\ metrics = InitMetrics
  /\ evlog = << >>

\* C17: the consume loop ends only past the deadline and only while the Bus
\* is empty at its deadline check: the step in which it ends is taken with
\* elapsed > RUNTIME_SECONDS and an empty queue.
C17_EndsOnEmptyBusPastDeadline ==
  [][ (pumpPc # "done" /\ pumpPc' = "done")
        => (elapsed > RUNTIME_SECONDS /\ q = << >>) ]_vars

\* the exact sum of the agents' completeness, in dict order
RECURSIVE ExactSum(_, _)
ExactSum(ag, i) ==
  IF i = 0 THEN F_0_0 ELSE ExactAdd(ExactSum(ag, i - 1), ag[AgentNames[i]].completeness)

\* the mean of the nine completeness values is at least thr, in exact
\* arithmetic: the sum is at least nine times thr
MeanAtLeast(ag, thr) ==
  FLeq(ExactTimes(Len(AgentNames), thr), ExactSum(ag, Len(AgentNames)))

\* the three-tier step function of the mean completeness
Tier(ag) ==
  IF MeanAtLeast(ag, F_0_75) THEN F_0_35
  ELSE IF MeanAtLeast(ag, F_0_5) THEN F_0_15
  ELSE F_0_05

\* C15: the snapshot a step writes carries, as agent_idle_percentage, the
\* three-tier step function of the mean of the nine agents' completeness at
\* that moment; no snapshot carries the initial value 0.0.
C15_IdleIsTierOfMean ==
  /\ [][ dlog' # dlog =>
           dlog'[Len(dlog')].metrics.agent_idle_percentage = Tier(agents) ]_vars
  /\ [](\A i \in 1..Len(dlog) : dlog[i].metrics.agent_idle_percentage # F_0_0)

\* snapshots of two tiers: one written with the mean exactly 0.5 (all nine
\* agents at 0.5) carries 0.15
C15_Witness ==
  /\ dlog # << >>
  /\ \A a \in Agents : agents[a].completeness = F_0_5
  /\ dlog[Len(dlog)].metrics.agent_idle_percentage = F_0_15

\* min(0.95, 0.05 + 0.01 * n) in doubles: the product 0.01 * n is rounded,
\* then the sum
ClosedForm(n) ==
  LET prod == FRound(Norm(n * F_0_01[1], n * F_0_01[2], n * F_0_01[3]), FALSE)
  IN  FMin(F_0_95, FAdd(F_0_05, prod))

\* x after n applications of x -> min(0.95, x + 0.01) in doubles (the first
\* half of the applications is computed before the second is entered)
RECURSIVE AccumulatedFrom(_, _)
AccumulatedFrom(x, n) ==
  IF n = 0 THEN x
  ELSE IF n = 1 THEN FMin(F_0_95, FAdd(x, F_0_01))
  ELSE CHOOSE r \in { AccumulatedFrom(left, n - (n \div 2)) :
                        left \in { AccumulatedFrom(x, n \div 2) } } : TRUE

Accumulated(n) == AccumulatedFrom(F_0_05, n)

\* C18 as stated: in every snapshot written, process_coverage is
\* min(0.95, 0.05 + 0.01 * processes) and requirements_complete is
\* min(0.95, 0.05 + 0.01 * requirements).
C18_CoverageClosedForm ==
  \A i \in 1..Len(dlog) :
     /\ dlog[i].metrics.process_coverage = ClosedForm(dlog[i].metrics.processes)
     /\ dlog[i].metrics.requirements_complete = ClosedForm(dlog[i].metrics.requirements)

\* C18 amended: in the snapshot a step writes, process_coverage is the double
\* obtained from 0.05 by applying x -> min(0.95, x + 0.01) once per process
\* counted, and requirements_complete likewise per requirement counted: the
\* counter and its coverage are never seen one without the other.
C18_CoverageAccumulated ==
  [][ dlog' # dlog =>
        LET snap == dlog'[Len(dlog')].metrics
        IN  /\ snap.process_coverage = Accumulated(snap.processes)
            /\ snap.requirements_complete = Accumulated(snap.requirements) ]_vars

\* a snapshot taken between two consumed events, while an event waits in the
\* Bus, with five processes counted: the accumulated coverage is not the
\* closed form
C18_Witness ==
  /\ dlog # << >>
  /\ q # << >>
  /\ dlog[Len(dlog)].metrics.processes = 5
  /\ dlog[Len(dlog)].metrics.process_coverage # ClosedForm(5)
  /\ dlog[Len(dlog)].metrics.process_coverage = Accumulated(5)

\* the number of events of type t in s
Count(s, t) == Cardinality({ i \in 1..Len(s) : s[i].event_type = t })

\* C19: whenever the consume loop is suspended, processes, requirements and
\* risks are the numbers of process.discovered, requirement.identified and
\* risk.identified events in the event log; so are the counters of the
\* snapshot a step writes.
C19_CountersAgreeWithLog ==
  /\ [](/\ metrics.processes = Count(evlog, "process.discovered")
        /\ metrics.requirements = Count(evlog, "requirement.identified")
        /\ metrics.risks = Count(evlog, "risk.identified"))
  /\ [][ dlog' # dlog =>
           LET snap == dlog'[Len(dlog')].metrics
           IN  /\ snap.processes = Count(evlog', "process.discovered")
               /\ snap.requirements = Count(evlog', "requirement.identified")
               /\ snap.risks = Count(evlog', "risk.identified") ]_vars

\* a snapshot written after events of a counted type and of an unhandled
\* type were consumed
C19_Witness ==
  /\ dlog # << >>
  /\ Count(evlog, "plan.updated") >= 1
  /\ Count(evlog, "risk.identified") >= 1
  /\ dlog[Len(dlog)].metrics.risks = 1

====
